---------------------------- MODULE Spec2Model ----------------------------
(***************************************************************************)
(* A model of pubmed_fetcher/fetch.py: the affiliation classifier, the     *)
(* author-info extractor, the citation-document parser and the pipeline    *)
(* orchestrator fetch_and_process_papers.                                  *)
(*                                                                         *)
(* Python strings are modelled as tuples of one-character strings, so that *)
(* lower(), the substring test `in`, strip(), join(), split() and the      *)
(* email regular expression are computed character by character.  The      *)
(* Python value None is the tuple NoneValue, which is no text.             *)
(***************************************************************************)
EXTENDS Integers, Sequences, FiniteSets, TLC

VARIABLES
    affiliation,   \* is_company_affiliation: its argument
    verdict,       \* is_company_affiliation: its return value, "pending" before the call
    pc,            \* fetch_and_process_papers: position in the function body
    output_file,   \* fetch_and_process_papers: argument output_file (None or a file name)
    debug,         \* fetch_and_process_papers: argument debug
    pubmed_ids,    \* fetch_and_process_papers: local pubmed_ids
    xml_str,       \* parse_pubmed_xml: the parsed document (root.findall(".//PubmedArticle"))
    article,       \* parse_pubmed_xml: index of the next article of the for loop
    results,       \* parse_pubmed_xml: local results
    extracted,     \* parse_pubmed_xml: locals non_acad_authors, company_affs, email
    papers,        \* fetch_and_process_papers: local papers
    stdout,        \* everything print() has written, in order
    csvfile,       \* the file named output_file: None until opened, then its rows
    idsCalls,      \* number of requests.get calls made by fetch_pubmed_ids
    detailCalls    \* number of requests.get calls made by fetch_pubmed_details

vars == << affiliation, verdict, pc, output_file, debug, pubmed_ids, xml_str,
           article, results, extracted, papers, stdout, csvfile, idsCalls, detailCalls >>

classifyVars == << affiliation, verdict >>
pipelineVars == << pc, output_file, debug, pubmed_ids, xml_str, article, results,
                   extracted, papers, stdout, csvfile, idsCalls, detailCalls >>

-----------------------------------------------------------------------------
(* Bounds of the model. *)

\* Number of fragments concatenated into an affiliation string given to the classifier.
MaxFragments == 2
\* Number of Author nodes of an article.
MaxAuthors == 2
\* Number of AffiliationInfo nodes of an article, over all its authors.
MaxAffs == 2
\* Number of PubmedArticle nodes of a document.
MaxArticles == 2

-----------------------------------------------------------------------------
(* Python values and string operations. *)

\* Python's None: a tuple that is no text (every text is a tuple of single characters).
NoneValue == << "<None>" >>

\* str(x) as an f-string replacement field formats it.
Str(x) == IF x = NoneValue THEN <<"N","o","n","e">> ELSE x

UpperCase ==
    <<"A","B","C","D","E","F","G","H","I","J","K","L","M",
      "N","O","P","Q","R","S","T","U","V","W","X","Y","Z">>
LowerCase ==
    <<"a","b","c","d","e","f","g","h","i","j","k","l","m",
      "n","o","p","q","r","s","t","u","v","w","x","y","z">>
Digits == {"0","1","2","3","4","5","6","7","8","9"}
Letters == {UpperCase[i] : i \in DOMAIN UpperCase} \cup {LowerCase[i] : i \in DOMAIN LowerCase}

\* The lower-case letter of each upper-case letter.
ToLower ==
    [c \in {UpperCase[i] : i \in DOMAIN UpperCase} |->
        LowerCase[CHOOSE i \in DOMAIN UpperCase : UpperCase[i] = c]]

\* str.lower(), one character.
lowerChar(c) == IF c \in DOMAIN ToLower THEN ToLower[c] ELSE c

\* str.lower()
lower(s) == [i \in DOMAIN s |-> lowerChar(s[i])]

\* word in s, for strings.
Contains(s, word) ==
    \E i \in 1..(Len(s) - Len(word) + 1) : \A j \in DOMAIN word : s[i + j - 1] = word[j]

\* The characters str.strip() removes.
Whitespace == {" "}

\* str.strip(chars): s without its leading and trailing characters of chars.
StripChars(s, chars) ==
    LET keep == {i \in DOMAIN s : s[i] \notin chars}
    IN  IF keep = {} THEN << >>
        ELSE LET first == CHOOSE i \in keep : \A j \in keep : i <= j
                 last  == CHOOSE i \in keep : \A j \in keep : j <= i
             IN  SubSeq(s, first, last)

\* str.strip()
strip(s) == StripChars(s, Whitespace)

RECURSIVE join(_, _)
\* sep.join(list)
join(sep, list) ==
    IF list = << >> THEN << >>
    ELSE IF Len(list) = 1 THEN list[1]
    ELSE list[1] \o sep \o join(sep, Tail(list))

RECURSIVE split(_, _)
\* s.split(sep) for a non-empty sep: cut at each occurrence of sep, left to right.
split(s, sep) ==
    IF ~Contains(s, sep) THEN << s >>
    ELSE LET k == CHOOSE i \in 1..(Len(s) - Len(sep) + 1) :
                     /\ SubSeq(s, i, i + Len(sep) - 1) = sep
                     /\ \A j \in 1..(i - 1) : SubSeq(s, j, j + Len(sep) - 1) # sep
         IN  << SubSeq(s, 1, k - 1) >> \o split(SubSeq(s, k + Len(sep), Len(s)), sep)

-----------------------------------------------------------------------------
(* The email regular expression of extract_authors_info. *)

\* [A-Za-z0-9._%+-]
LocalChars == Letters \cup Digits \cup {".", "_", "%", "+", "-"}
\* [A-Za-z0-9.-]
DomainChars == Letters \cup Digits \cup {".", "-"}

\* The last position of the longest run of characters of chars that starts at
\* position i of s; i - 1 when there is none.
RunEnd(s, i, chars) ==
    LET stops == {j \in i..Len(s) : s[j] \notin chars}
    IN  IF stops = {} THEN Len(s)
        ELSE (CHOOSE j \in stops : \A k \in stops : j <= k) - 1

\* The match of the pattern that starts at position i of s: its last position, 0 when
\* there is none.  [A-Za-z0-9._%+-]+ takes every local character, and "@" must follow
\* (no shorter local part can: "@" is no local character); [A-Za-z0-9.-]+ takes the
\* longest run and gives back until "\." and two letters follow it, which is the last
\* such "." of the run; [A-Za-z]{2,} takes every letter after it.
MatchEnd(s, i) ==
    LET at == RunEnd(s, i, LocalChars) + 1
    IN  IF at = i \/ at > Len(s) THEN 0
        ELSE IF s[at] # "@" THEN 0
        ELSE LET domainEnd == RunEnd(s, at + 1, DomainChars)
                 dots == {d \in (at + 2)..(domainEnd - 2) :
                            s[d] = "." /\ s[d + 1] \in Letters /\ s[d + 2] \in Letters}
             IN  IF dots = {} THEN 0
                 ELSE RunEnd(s, (CHOOSE d \in dots : \A e \in dots : e <= d) + 1, Letters)

\* re.search(pattern, s): None, or group(0) of the match at the leftmost position
\* where the pattern matches.
re_search(s) ==
    LET starts == {i \in DOMAIN s : MatchEnd(s, i) # 0}
    IN  IF starts = {} THEN NoneValue
        ELSE LET i == CHOOSE a \in starts : \A b \in starts : a <= b
             IN  SubSeq(s, i, MatchEnd(s, i))

-----------------------------------------------------------------------------
(* is_company_affiliation *)

COMPANY_KEYWORDS ==
    << <<"p","h","a","r","m","a">>,
       <<"b","i","o","t","e","c","h">>,
       <<"t","h","e","r","a","p","e","u","t","i","c","s">>,
       <<"i","n","c">>,
       <<"l","t","d">>,
       <<"l","l","c">>,
       <<"g","m","b","h">>,
       <<"l","a","b","o","r","a","t","o","r","i","e","s">>,
       <<"s","o","l","u","t","i","o","n","s">> >>

ACADEMIC_KEYWORDS ==
    << <<"u","n","i","v","e","r","s","i","t","y">>,
       <<"i","n","s","t","i","t","u","t","e">>,
       <<"c","o","l","l","e","g","e">>,
       <<"h","o","s","p","i","t","a","l">>,
       <<"s","c","h","o","o","l">>,
       <<"d","e","p","a","r","t","m","e","n","t">>,
       <<"c","e","n","t","e","r">>,
       <<"c","e","n","t","r","e">>,
       <<"a","c","a","d","e","m","y">> >>

\* any(word in text for word in keywords)
AnyWordIn(text, keywords) == \E k \in DOMAIN keywords : Contains(text, keywords[k])

\* A plausible slip: the argument is not lower-cased before the keywords are looked up.
is_company_affiliation_no_lower(text) ==
    /\ AnyWordIn(text, COMPANY_KEYWORDS)
    /\ ~AnyWordIn(text, ACADEMIC_KEYWORDS)

\* is_company_affiliation(affiliation), for a string argument.
is_company_affiliation(text) ==
    LET lowered == lower(text)
    IN  /\ AnyWordIn(lowered, COMPANY_KEYWORDS)
        /\ ~AnyWordIn(lowered, ACADEMIC_KEYWORDS)

\* Pieces of affiliation strings: keywords in several cases, keywords cut in two,
\* a keyword inside another word ("inc" in "Princeton"), and text with no keyword.
Fragments ==
    { <<"I","n","c">>, <<"L","T","D">>, <<"p","h">>, <<"a","r","m","a">>,
      <<"U","n","i">>, <<"v","e","r","s","i","t","y">>, <<"C","e","n","t","e","r">>,
      <<"P","r","i","n","c","e","t","o","n">>, <<" ">>, <<"L","a","b">> }

RECURSIVE Concat(_)
Concat(list) == IF list = << >> THEN << >> ELSE list[1] \o Concat(Tail(list))

\* The affiliation strings the classifier is applied to.
AffiliationStrings ==
    {Concat(fs) : fs \in UNION {[1..n -> Fragments] : n \in 0..MaxFragments}}


-----------------------------------------------------------------------------
(* extract_authors_info *)

\* dict.get(key, default)
get(dict, key, default) == IF key \in DOMAIN dict THEN dict[key] ELSE default

\* Truth value of an Optional[str]: None and "" are false.
Truthy(x) == x # NoneValue /\ x # << >>

\* The orders in which list(a_set) may enumerate a set of strings: the iteration order of
\* a set of str follows the strings' hashes, which are randomised per process.
ListsOf(S) ==
    {f \in [1..Cardinality(S) -> S] : \A i, j \in 1..Cardinality(S) : i # j => f[i] # f[j]}

\* The locals of extract_authors_info before its loops; raised: an exception left the body.
NoAuthorsInfo ==
    [ raised |-> FALSE,
      non_academic_authors |-> << >>,
      company_affiliations |-> {},
      corresponding_email |-> NoneValue ]

\* A plausible slip: the email is captured from every matching affiliation, so a later
\* match replaces an earlier one.
AffiliationStep_last_email(acc, name, aff) ==
    LET aff_text == get(aff, "Affiliation", << >>)
    IN  IF acc.raised THEN acc
        ELSE IF aff_text = NoneValue THEN [acc EXCEPT !.raised = TRUE]
        ELSE LET company == is_company_affiliation(aff_text)
                 added == IF company
                          THEN [acc EXCEPT !.non_academic_authors = Append(@, name),
                                           !.company_affiliations = @ \cup {aff_text}]
                          ELSE acc
                 email_match == re_search(aff_text)
             IN  IF email_match # NoneValue
                 THEN [added EXCEPT !.corresponding_email = email_match]
                 ELSE added

\* The body of `for aff in affiliations`.  is_company_affiliation(None) raises
\* AttributeError at affiliation.lower().
AffiliationStep(acc, name, aff) ==
    LET aff_text == get(aff, "Affiliation", << >>)
    IN  IF acc.raised THEN acc
        ELSE IF aff_text = NoneValue THEN [acc EXCEPT !.raised = TRUE]
        ELSE LET company == is_company_affiliation(aff_text)
                 added == IF company
                          THEN [acc EXCEPT !.non_academic_authors = Append(@, name),
                                           !.company_affiliations = @ \cup {aff_text}]
                          ELSE acc
                 email_match == re_search(aff_text)
             IN  IF ~Truthy(added.corresponding_email) /\ email_match # NoneValue
                 THEN [added EXCEPT !.corresponding_email = email_match]
                 ELSE added

RECURSIVE ForAffiliations(_, _, _)
\* for aff in affiliations
ForAffiliations(acc, name, affiliations) ==
    IF affiliations = << >> THEN acc
    ELSE ForAffiliations(AffiliationStep(acc, name, Head(affiliations)), name,
                         Tail(affiliations))

\* name = f"{author.get('LastName', '')} {author.get('ForeName', '')}".strip()
AuthorName(author) ==
    strip(Str(get(author, "LastName", << >>)) \o <<" ">> \o Str(get(author, "ForeName", << >>)))

RECURSIVE ForAuthors(_, _)
\* for author in authors
ForAuthors(acc, authors) ==
    IF authors = << >> THEN acc
    ELSE ForAuthors(ForAffiliations(acc, AuthorName(Head(authors)),
                                    get(Head(authors), "AffiliationInfo", << >>)),
                    Tail(authors))

\* extract_authors_info(authors): the values the call may return, one for each order
\* list(company_affiliations) may take; a single raised outcome when it raises.
extract_authors_info(authors) ==
    LET acc == ForAuthors(NoAuthorsInfo, authors)
    IN  IF acc.raised
        THEN {[acc EXCEPT !.company_affiliations = << >>]}
        ELSE {[acc EXCEPT !.company_affiliations = order] :
                 order \in ListsOf(acc.company_affiliations)}

-----------------------------------------------------------------------------
(* parse_pubmed_xml: one article *)

\* x or ""
OrEmpty(x) == IF Truthy(x) THEN x ELSE << >>

\* The publication date of an article: pub_date_el is None or <<Year, Month, Day>>,
\* each what findtext returns (None when the element is absent).
PubDate(pub_date_el) ==
    IF pub_date_el = NoneValue THEN << >>
    ELSE LET year  == OrEmpty(pub_date_el[1])
             month == OrEmpty(pub_date_el[2])
             day   == OrEmpty(pub_date_el[3])
         IN  StripChars(year \o <<"-">> \o month \o <<"-">> \o day, {"-"})

\* author_data of one Author node; an AffiliationInfo node is the text of its
\* Affiliation child, None when it has none.
AuthorData(node) ==
    [ LastName |-> node.LastName,
      ForeName |-> node.ForeName,
      AffiliationInfo |-> [i \in DOMAIN node.AffiliationInfo |->
                              [Affiliation |-> node.AffiliationInfo[i]]] ]

\* authors: the author_data of every Author node of the article, in document order.
AuthorsOf(node) == [i \in DOMAIN node.Authors |-> AuthorData(node.Authors[i])]

\* A plausible slip: the lists are joined with ";" alone.
PaperRecord_semicolon(node, info) ==
    [ PubmedID |-> node.PMID,
      Title |-> node.ArticleTitle,
      PublicationDate |-> PubDate(node.PubDate),
      NonAcademicAuthors |-> join(<<";">>, info.non_academic_authors),
      CompanyAffiliations |-> join(<<";">>, info.company_affiliations),
      CorrespondingAuthorEmail |-> IF Truthy(info.corresponding_email)
                                   THEN info.corresponding_email
                                   ELSE <<"N","/","A">> ]

\* The dict appended to results for an article and the value extract_authors_info returned.
PaperRecord(node, info) ==
    [ PubmedID |-> node.PMID,
      Title |-> node.ArticleTitle,
      PublicationDate |-> PubDate(node.PubDate),
      NonAcademicAuthors |-> join(<<";", " ">>, info.non_academic_authors),
      CompanyAffiliations |-> join(<<";", " ">>, info.company_affiliations),
      CorrespondingAuthorEmail |-> IF Truthy(info.corresponding_email)
                                   THEN info.corresponding_email
                                   ELSE <<"N","/","A">> ]

\* non_acad_authors, company_affs, email before the first call of extract_authors_info.
NotExtracted == [NoAuthorsInfo EXCEPT !.company_affiliations = << >>]

\* A plausible slip: every article's record is appended.
Included_always(info) == TRUE

\* if non_acad_authors: whether the article's record is appended to results.
Included(info) == info.non_academic_authors # << >>

-----------------------------------------------------------------------------
(* The citation documents the efetch endpoint may answer with. *)

\* LastName and ForeName of an Author node, as findtext returns them: both present,
\* or LastName absent (ArticlePool has an author whose ForeName is absent).
AuthorNames ==
    { [LastName |-> <<"D","o","e">>, ForeName |-> <<"J","o","h","n">>],
      [LastName |-> NoneValue,       ForeName |-> <<"A","n","n">>] }

AcmeInc == <<"A","c","m","e"," ","I","n","c">>
BetaLtd == <<"B","e","t","a"," ","L","t","d"," ","c","@","b",".","c","o">>
GammaLlc == <<"G","a","m","m","a"," ","L","L","C",";"," ","U","n","i","t"," ","2">>
CityCollege ==
    <<"C","i","t","y"," ","C","o","l","l","e","g","e"," ","d","@","c",".","e","d","u">>

\* What findtext("Affiliation") returns for an AffiliationInfo node: None when the node
\* has no Affiliation child, else its text: a company without an email, a company with
\* an email, a company whose text holds "; ", an academic institution with an email.
AffiliationTexts == {NoneValue, AcmeInc, BetaLtd, GammaLlc, CityCollege}

\* The ways t AffiliationInfo nodes, in document order, are spread over k authors.
Owners(t, k) == {o \in [1..t -> 1..k] : \A j \in 1..(t - 1) : o[j] <= o[j + 1]}

\* The AffiliationInfo nodes of author i.
OwnedBy(affs, owner, i) ==
    LET mine == {j \in DOMAIN affs : owner[j] = i}
    IN  IF mine = {} THEN << >>
        ELSE SubSeq(affs, CHOOSE j \in mine : \A m \in mine : j <= m,
                          CHOOSE j \in mine : \A m \in mine : m <= j)

\* The Author nodes of an article: at most MaxAuthors authors holding at most MaxAffs
\* AffiliationInfo nodes between them.
AuthorLists ==
    UNION { { [i \in 1..k |-> [LastName |-> names[i].LastName,
                               ForeName |-> names[i].ForeName,
                               AffiliationInfo |-> OwnedBy(affs, owner, i)]] :
                names \in [1..k -> AuthorNames],
                affs \in [1..t -> AffiliationTexts],
                owner \in Owners(t, k) } :
            k \in 0..MaxAuthors, t \in 0..MaxAffs }

Year2020 == <<"2","0","2","0">>
MonthJan == <<"J","a","n">>
Day15 == <<"1","5">>
TitleText == <<"T","r","i","a","l">>

\* article.find(".//PubDate"): None, or the findtext of Year, Month and Day under it.
PubDates ==
    {NoneValue} \cup
    ({NoneValue, Year2020} \X {NoneValue, MonthJan} \X {NoneValue, Day15})

DoeJohn == [LastName |-> <<"D","o","e">>, ForeName |-> <<"J","o","h","n">>]

\* One article for every author list.
AuthorArticles ==
    { [PMID |-> <<"1","0","1">>, ArticleTitle |-> TitleText,
       PubDate |-> <<Year2020, MonthJan, NoneValue>>, Authors |-> al] :
      al \in AuthorLists }

\* One article for every publication date and title, with one company author.
DateArticles ==
    { [PMID |-> <<"1","0","2">>, ArticleTitle |-> title, PubDate |-> date,
       Authors |-> << [LastName |-> DoeJohn.LastName, ForeName |-> DoeJohn.ForeName,
                       AffiliationInfo |-> <<AcmeInc>>] >>] :
      title \in {NoneValue, TitleText}, date \in PubDates }

\* The articles of the documents of several articles: two that qualify, one that does
\* not, one whose AffiliationInfo node has no Affiliation child.
ArticlePool ==
    { [PMID |-> <<"2","0","1">>, ArticleTitle |-> TitleText, PubDate |-> NoneValue,
       Authors |-> << [LastName |-> <<"D","o","e">>, ForeName |-> <<"J","o","h","n">>,
                       AffiliationInfo |-> <<AcmeInc>>] >>],
      [PMID |-> <<"2","0","2">>, ArticleTitle |-> TitleText, PubDate |-> NoneValue,
       Authors |-> << [LastName |-> <<"R","o","e">>, ForeName |-> <<"A","n","n">>,
                       AffiliationInfo |-> <<CityCollege>>] >>],
      [PMID |-> <<"2","0","3">>, ArticleTitle |-> TitleText, PubDate |-> NoneValue,
       Authors |-> << [LastName |-> NoneValue, ForeName |-> <<"A","n","n">>,
                       AffiliationInfo |-> <<NoneValue>>] >>],
      [PMID |-> <<"2","0","4">>, ArticleTitle |-> NoneValue, PubDate |-> NoneValue,
       Authors |-> << [LastName |-> <<"R","o","e">>, ForeName |-> NoneValue,
                       AffiliationInfo |-> <<BetaLtd>>] >>] }

\* response.text: markup ElementTree.fromstring rejects, or a document given by its
\* PubmedArticle nodes in document order.
MalformedDocument == [wellformed |-> FALSE, root |-> << >>]
Documents ==
    {[wellformed |-> TRUE, root |-> r] :
        r \in {<<a>> : a \in AuthorArticles \cup DateArticles}
              \cup UNION {[1..n -> ArticlePool] : n \in 0..MaxArticles}}

\* response.json()["esearchresult"]["idlist"]
IdLists == { << >>, << <<"2","0","1">>, <<"2","0","2">> >> }

OutputFiles == {NoneValue, <<"o","u","t",".","c","s","v">>}

-----------------------------------------------------------------------------
(* fetch_and_process_papers *)

\* A line of standard output.
Line(kind, text) == [kind |-> kind, text |-> text]
\* print("Error:", str(e)) of the except clause, for an exception raised at `at`.
ErrorLine(at) == Line("Error", at)

NoFile == [opened |-> FALSE, header |-> FALSE, rows |-> << >>]

InitPipeline ==
    /\ pc = "start"
    /\ output_file \in OutputFiles
    /\ debug \in BOOLEAN
    /\ pubmed_ids = << >>
    /\ xml_str = MalformedDocument
    /\ article = 0
    /\ results = << >>
    /\ extracted = NotExtracted
    /\ papers = << >>
    /\ stdout = << >>
    /\ csvfile = NoFile
    /\ idsCalls = 0
    /\ detailCalls = 0

\* A plausible slip: the except clause ends before the output is written, so the
\* function goes on to write its output after printing the error.
Caught_then_output(out, at) ==
    /\ stdout' = Append(out, ErrorLine(at))
    /\ pc' = "emit"

\* An exception raised at `at`, after out was printed, reaches `except Exception as e`,
\* which prints it; the function returns.
Caught(out, at) ==
    /\ stdout' = Append(out, ErrorLine(at))
    /\ pc' = "done"

\* pubmed_ids = fetch_pubmed_ids(query, debug): one requests.get; the request,
\* raise_for_status or response.json() raises, or, after the debug line, the lookup of
\* the id list raises, or the id list is returned.
FetchIds ==
    /\ pc = "start"
    /\ idsCalls' = idsCalls + 1
    /\ LET out == IF debug THEN Append(stdout, Line("debug", "PubMed ID Fetch Response"))
                  ELSE stdout
       IN  \/ /\ Caught(stdout, "fetch_pubmed_ids")
              /\ UNCHANGED pubmed_ids
           \/ /\ Caught(out, "fetch_pubmed_ids")
              /\ UNCHANGED pubmed_ids
           \/ \E ids \in IdLists :
                /\ pubmed_ids' = ids
                /\ stdout' = out
                /\ pc' = "got_ids"
    /\ UNCHANGED << classifyVars, output_file, debug, xml_str, article, results, extracted,
                    papers, csvfile, detailCalls >>

\* A plausible slip: the empty id list is not checked for.
NoIds_unchecked == FALSE

\* not pubmed_ids
NoIds == pubmed_ids = << >>

\* if not pubmed_ids: print("No papers found."); return
NoPapers ==
    /\ pc = "got_ids"
    /\ NoIds
    /\ stdout' = Append(stdout, Line("info", "No papers found."))
    /\ pc' = "done"
    /\ UNCHANGED << classifyVars, output_file, debug, pubmed_ids, xml_str, article, results,
                    extracted, papers, csvfile, idsCalls, detailCalls >>

\* fetch_pubmed_details up to the parser's loop: one requests.get; the request or
\* raise_for_status raises, or ElementTree.fromstring raises on the text, or the parse
\* starts with results = [].
FetchDetails ==
    /\ pc = "got_ids"
    /\ ~NoIds
    /\ detailCalls' = detailCalls + 1
    /\ \/ /\ Caught(stdout, "fetch_pubmed_details")
          /\ UNCHANGED << xml_str, article, results, extracted >>
       \/ \E text \in Documents \cup {MalformedDocument} :
            LET out == IF debug THEN Append(stdout, Line("debug", "Raw XML fetched"))
                       ELSE stdout
            IN  IF text.wellformed
                THEN /\ xml_str' = text
                     /\ article' = 1
                     /\ results' = << >>
                     /\ extracted' = NotExtracted
                     /\ stdout' = out
                     /\ pc' = "parse"
                ELSE /\ Caught(out, "ElementTree.fromstring")
                     /\ UNCHANGED << xml_str, article, results, extracted >>
    /\ UNCHANGED << classifyVars, output_file, debug, pubmed_ids, papers, csvfile, idsCalls >>

\* One iteration of `for article in root.findall(".//PubmedArticle")`.
ParseArticle ==
    /\ pc = "parse"
    /\ article <= Len(xml_str.root)
    /\ \E info \in extract_authors_info(AuthorsOf(xml_str.root[article])) :
         IF info.raised
         THEN /\ Caught(stdout, "extract_authors_info")
              /\ UNCHANGED << article, results, extracted >>
         ELSE /\ results' = IF Included(info)
                            THEN Append(results, PaperRecord(xml_str.root[article], info))
                            ELSE results
              /\ extracted' = info
              /\ article' = article + 1
              /\ UNCHANGED << pc, stdout >>
    /\ UNCHANGED << classifyVars, output_file, debug, pubmed_ids, xml_str, papers, csvfile, idsCalls,
                    detailCalls >>

\* return results; papers = fetch_pubmed_details(pubmed_ids, debug)
ParseReturn ==
    /\ pc = "parse"
    /\ article > Len(xml_str.root)
    /\ papers' = results
    /\ pc' = "emit"
    /\ UNCHANGED << classifyVars, output_file, debug, pubmed_ids, xml_str, article, results,
                    extracted, stdout, csvfile, idsCalls, detailCalls >>

\* if output_file: write the CSV file (open may raise) and report it; else print each paper.
Emit ==
    /\ pc = "emit"
    /\ IF Truthy(output_file)
       THEN \/ /\ Caught(stdout, "open")
               /\ UNCHANGED csvfile
            \/ /\ csvfile' = [opened |-> TRUE, header |-> TRUE, rows |-> papers]
               /\ stdout' = Append(stdout, Line("info", "Results saved"))
               /\ pc' = "done"
       ELSE /\ stdout' = stdout \o [i \in DOMAIN papers |-> Line("paper", papers[i])]
            /\ pc' = "done"
            /\ UNCHANGED csvfile
    /\ UNCHANGED << classifyVars, output_file, debug, pubmed_ids, xml_str, article, results,
                    extracted, papers, idsCalls, detailCalls >>

Init ==
    /\ InitPipeline
    /\ affiliation = << >>
    /\ verdict = "pending"

Next ==
    \/ FetchIds
    \/ NoPapers
    \/ FetchDetails
    \/ ParseArticle
    \/ ParseReturn
    \/ Emit

\* One run of fetch_and_process_papers.
Spec == Init /\ [][Next]_vars

\* The function is one thread: once fetch_pubmed_ids has returned, the if statement
\* that follows it is executed.  (The two requests.get calls have no timeout and may
\* wait for ever: no progress is assumed of FetchIds and FetchDetails.)
FairSpec == Spec /\ WF_vars(NoPapers)

-----------------------------------------------------------------------------
(* The classifier applied to one affiliation string. *)

InitClassify ==
    /\ affiliation \in AffiliationStrings
    /\ verdict = "pending"
    /\ pc = "start"
    /\ output_file = NoneValue
    /\ debug = FALSE
    /\ pubmed_ids = << >>
    /\ xml_str = MalformedDocument
    /\ article = 0
    /\ results = << >>
    /\ extracted = NotExtracted
    /\ papers = << >>
    /\ stdout = << >>
    /\ csvfile = NoFile
    /\ idsCalls = 0
    /\ detailCalls = 0

\* verdict = is_company_affiliation(affiliation)
Classify ==
    /\ verdict = "pending"
    /\ verdict' = IF is_company_affiliation(affiliation) THEN "company" ELSE "not company"
    /\ UNCHANGED << affiliation, pipelineVars >>

NextClassify == Classify

SpecClassify == InitClassify /\ [][NextClassify]_vars

-----------------------------------------------------------------------------
(* Properties of the classifier. *)

\* The number of keywords that are substrings of the lower-cased text.
NumKeywords(text, keywords) ==
    Cardinality({k \in DOMAIN keywords : Contains(lower(text), keywords[k])})

\* C1: is_company_affiliation(s) is true exactly when the lower-cased s contains at
\* least one company keyword and no academic keyword.
C1_Classifier ==
    verdict # "pending" =>
        (verdict = "company" <=>
            /\ NumKeywords(affiliation, COMPANY_KEYWORDS) >= 1
            /\ NumKeywords(affiliation, ACADEMIC_KEYWORDS) = 0)

\* A string with a company keyword in upper case and an academic keyword is rejected.
C1_Witness ==
    /\ verdict = "not company"
    /\ affiliation = <<"L","T","D">> \o <<"C","e","n","t","e","r">>
    /\ NumKeywords(affiliation, COMPANY_KEYWORDS) >= 1
    /\ NumKeywords(affiliation, ACADEMIC_KEYWORDS) >= 1

-----------------------------------------------------------------------------
(* Properties of the parser and the extractor. *)

\* parse_pubmed_xml has just returned its results, which are papers.
ParseReturned == pc = "emit"

\* extract_authors_info has just returned for the article LastParsed, and extracted is
\* what it returned.
HasParsed == pc = "parse" /\ article > 1
LastParsed == xml_str.root[article - 1]
LastRecord == results[Len(results)]

\* The affiliation texts of an article, authors in order, each author's in order.
AllAffiliations(node) == Concat([i \in DOMAIN node.Authors |-> node.Authors[i].AffiliationInfo])

\* The non-academic author list extract_authors_info derives for an article.
NonAcademicOf(node) == ForAuthors(NoAuthorsInfo, AuthorsOf(node)).non_academic_authors

RECURSIVE Qualifying(_)
\* For each article whose non-academic author list is non-empty, in document order, its
\* PMID and that list as the record serializes it.
Qualifying(root) ==
    IF root = << >> THEN << >>
    ELSE LET names == NonAcademicOf(Head(root))
         IN  IF names = << >> THEN Qualifying(Tail(root))
             ELSE << <<Head(root).PMID, join(<<";", " ">>, names)>> >>
                  \o Qualifying(Tail(root))

\* The PMID and the serialized author list of each record.
AuthorsByPmid(records) ==
    [k \in DOMAIN records |-> <<records[k].PubmedID, records[k].NonAcademicAuthors>>]

\* C2: parse_pubmed_xml returns one record for each article whose derived non-academic
\* author list is non-empty and none for the others, in the document order of the articles.
C2_RecordIffNonAcademic ==
    ParseReturned => AuthorsByPmid(papers) = Qualifying(xml_str.root)

\* A document whose first article does not qualify and whose second does.
C2_Witness ==
    /\ ParseReturned
    /\ Len(xml_str.root) = 2
    /\ NonAcademicOf(xml_str.root[1]) = << >>
    /\ NonAcademicOf(xml_str.root[2]) # << >>
    /\ Len(papers) = 1
    /\ papers[1].PubmedID = <<"2","0","1">>

\* The first email-shaped substring met in the texts in order; None when there is none.
FirstEmail(texts) ==
    LET hits == {j \in DOMAIN texts : re_search(texts[j]) # NoneValue}
    IN  IF hits = {} THEN NoneValue
        ELSE re_search(texts[CHOOSE j \in hits : \A k \in hits : j <= k])

\* C3: the email extract_authors_info returns is the first email-shaped substring of the
\* affiliations of all authors in document order, company or not, None when there is
\* none, and the record carries it, "N/A" for None.
C3_FirstEmail ==
    HasParsed =>
        LET first == FirstEmail(AllAffiliations(LastParsed))
        IN  /\ extracted.corresponding_email = first
            /\ Included(extracted) =>
                 LastRecord.CorrespondingAuthorEmail
                   = IF first = NoneValue THEN <<"N","/","A">> ELSE first

\* The first email stands in an academic affiliation, a second one in a later company
\* affiliation: the first is returned.
C3_Witness ==
    /\ HasParsed
    /\ AllAffiliations(LastParsed) = <<CityCollege, BetaLtd>>
    /\ Included(extracted)
    /\ extracted.corresponding_email = <<"d","@","c",".","e","d","u">>
    /\ LastRecord.CorrespondingAuthorEmail = <<"d","@","c",".","e","d","u">>

\* C4 as claimed: a well-formed document with absent optional sub-elements is parsed to
\* its end, no exception leaving the parser.
C4_AbsentFieldsTolerated ==
    (xml_str.wellformed /\ pc = "done") =>
        /\ article > Len(xml_str.root)
        /\ \A i \in DOMAIN stdout :
             ~(stdout[i].kind = "Error" /\ stdout[i].text = "extract_authors_info")

\* C7 as claimed: splitting the two serialized fields on ";" gives back the lists.
C7_SplitOnSemicolon ==
    (HasParsed /\ Included(extracted)) =>
        /\ split(LastRecord.NonAcademicAuthors, <<";">>) = extracted.non_academic_authors
        /\ split(LastRecord.CompanyAffiliations, <<";">>) = extracted.company_affiliations

\* No element of the list contains the separator "; ".
SeparatorFree(list) == \A i \in DOMAIN list : ~Contains(list[i], <<";", " ">>)

\* C7, amended: splitting a serialized field on "; " gives back the list it was joined
\* from, when no element of that list contains "; ".
C7_SplitOnSeparator ==
    (HasParsed /\ Included(extracted)) =>
        /\ SeparatorFree(extracted.non_academic_authors) =>
             split(LastRecord.NonAcademicAuthors, <<";", " ">>)
               = extracted.non_academic_authors
        /\ SeparatorFree(extracted.company_affiliations) =>
             split(LastRecord.CompanyAffiliations, <<";", " ">>)
               = extracted.company_affiliations

\* A record of two names and two affiliation texts, none holding "; ".
C7_Witness ==
    /\ HasParsed
    /\ Included(extracted)
    /\ Len(extracted.non_academic_authors) = 2
    /\ Len(extracted.company_affiliations) = 2
    /\ SeparatorFree(extracted.non_academic_authors)
    /\ SeparatorFree(extracted.company_affiliations)

\* The present components of a PubDate joined by "-".
JoinedDate(pub_date_el) ==
    IF pub_date_el = NoneValue THEN << >>
    ELSE join(<<"-">>, SelectSeq(pub_date_el, LAMBDA c : c # NoneValue))

\* C8 as claimed: the publication date is the present components among Year, Month,
\* Day, in that order, joined by a single "-"; empty with none.
C8_PublicationDate ==
    (HasParsed /\ Included(extracted)) =>
        LastRecord.PublicationDate = JoinedDate(LastParsed.PubDate)

RECURSIVE FirstSeen(_)
\* The distinct elements of a list in the order of their first occurrence.
FirstSeen(list) ==
    IF list = << >> THEN << >>
    ELSE LET front == FirstSeen(SubSeq(list, 1, Len(list) - 1))
             last == list[Len(list)]
         IN  IF \E i \in DOMAIN front : front[i] = last THEN front ELSE Append(front, last)

\* C9 as claimed: the company-affiliation list holds each distinct company-classified
\* text once, in first-seen order.
C9_FirstSeenOrder ==
    HasParsed =>
        extracted.company_affiliations
          = FirstSeen(SelectSeq(AllAffiliations(LastParsed), is_company_affiliation))

\* lastName, a space, foreName, trimmed; an absent part is empty.
DisplayName(author) ==
    strip((IF author.LastName = NoneValue THEN << >> ELSE author.LastName)
          \o <<" ">>
          \o (IF author.ForeName = NoneValue THEN << >> ELSE author.ForeName))

\* One display name for each company-classified affiliation of each author, in order.
DisplayNames(node) ==
    Concat([i \in DOMAIN node.Authors |->
               [j \in DOMAIN SelectSeq(node.Authors[i].AffiliationInfo, is_company_affiliation)
                   |-> DisplayName(node.Authors[i])]])

\* C10 as claimed: the non-academic author list has one display name for each pair of
\* an author and a company-classified affiliation, an absent name part being empty.
C10_DisplayNames ==
    HasParsed => extracted.non_academic_authors = DisplayNames(LastParsed)

-----------------------------------------------------------------------------
(* Properties of the orchestrator. *)

ErrorLines == {i \in DOMAIN stdout : stdout[i].kind = "Error"}
PaperLines == {i \in DOMAIN stdout : stdout[i].kind = "paper"}

\* fetch_pubmed_ids has returned an empty list.
IdsReturnedEmpty == pc \in {"got_ids", "done"} /\ pubmed_ids = << >> /\ ErrorLines = {}

\* The informational terminal state.
NoResultsReported ==
    /\ pc = "done"
    /\ stdout # << >>
    /\ stdout[Len(stdout)].kind = "info"
    /\ stdout[Len(stdout)].text = "No papers found."

\* C5: when the id list is empty the run ends reporting "no results"; no document is
\* retrieved, no error is printed and nothing is written to the sink.
C5_EmptyIdList ==
    /\ [](IdsReturnedEmpty =>
            /\ detailCalls = 0
            /\ PaperLines = {}
            /\ csvfile = NoFile
            /\ papers = << >>)
    /\ (IdsReturnedEmpty ~> NoResultsReported)

C5_Witness == IdsReturnedEmpty /\ NoResultsReported /\ idsCalls = 1

\* The failures of id retrieval, document retrieval and parsing.
RetrievalOrParseFailed ==
    \E i \in ErrorLines :
        stdout[i].text \in {"fetch_pubmed_ids", "fetch_pubmed_details",
                            "ElementTree.fromstring", "extract_authors_info"}

\* C6: a failure of id retrieval, document retrieval or parsing is printed once and ends
\* the run; each network call is made at most once; no record is printed and no file
\* is opened in that run.
C6_FailureEndsRun ==
    /\ idsCalls <= 1
    /\ detailCalls <= 1
    /\ RetrievalOrParseFailed =>
         /\ Cardinality(ErrorLines) = 1
         /\ stdout[Len(stdout)].kind = "Error"
         /\ pc = "done"
         /\ PaperLines = {}
         /\ csvfile = NoFile
         /\ papers = << >>

\* The parser fails on the second article after a record was built for the first.
C6_Witness ==
    /\ RetrievalOrParseFailed
    /\ pc = "done"
    /\ detailCalls = 1
    /\ results # << >>
    /\ stdout[Len(stdout)].kind = "Error"
    /\ stdout[Len(stdout)].text = "extract_authors_info"

=============================================================================
